---- MODULE Spec2Model ----
(***************************************************************************)
(* The docker backend actor of gu-provider (src/gu-provider/src/           *)
(* dockerman.rs): the DockerMan actor, its session registry `deploys`,     *)
(* the message handlers CreateSession / SessionUpdate / GetSessions /      *)
(* DestroySession and the command pipeline run_commands / run_command.     *)
(*                                                                         *)
(* Every handler that answers with ActorResponse::async hands its future   *)
(* to the actor context (ctx.spawn); the actor then goes on taking         *)
(* messages from its mailbox while the spawned futures are polled.  The    *)
(* variable `tasks` holds those spawned futures, oldest first.  A step of  *)
(* a future is one poll: it runs until the future is pending on the        *)
(* container engine again, or until it resolves and the reply is sent.     *)
(***************************************************************************)
EXTENDS Integers, Sequences, FiniteSets, TLC

\* ------------------------------------------------------------------ bounds
MaxSessions == 2     \* containers the engine gets to create in one run
MaxPending == 2      \* commands and engine requests outstanding at one time
MaxVolumes == 2      \* volumes declared by one CreateSession
MaxBatch == 3        \* commands of one batch run on a fresh session
MaxChunks == 20      \* chunks the source of one download yields at most
MaxOutput == 3       \* chunks the exec stream of one command yields at most
MaxHubs == 2         \* hub addresses known to the provider server

\* mpsc::channel(16) in do_download
ChannelBuffer == 16

\* ------------------------------------------------------------------ inputs
Tags == {"gpu"}
TagArgs == {{"gpu"}}

\* A session id is the engine's container id: the engine hands out
\* 1, 2, ... ; id 0 is an id the engine never assigned.  A request names
\* a registered id or the id nobody was given.
RequestIds(d) == DOMAIN d \cup {0}

\* VolumeDef::BindRw { src, target }
BindRw(src, target) == [src |-> src, target |-> target]

Volumes ==
    {BindRw("/host/data", "/workspace/data"), BindRw("/host/in", "/workspace/in")}

\* CreateOptions.volumes: Vec<VolumeDef>, duplicates included
VolumeLists == UNION {[1..n -> Volumes] : n \in 0..MaxVolumes}

Cmd(op, tags) == [op |-> op, tags |-> tags]

EngineOps == {"Open", "Close", "Exec", "DownloadFile", "UploadFile"}
MockOps == {"Start", "Stop"}
TagOps == {"AddTags", "DelTags"}

Commands ==
    {Cmd(op, {}) : op \in EngineOps \cup MockOps}
        \cup {Cmd(op, T) : op \in TagOps, T \in TagArgs}


\* Command::DownloadFile / UploadFile { uri, file_path, format }
Formats == {"Raw", "Tar"}

TransferCmd(op, format) == [op |-> op, tags |-> {}, format |-> format]

TransferCommands == {TransferCmd(op, f) : op \in {"DownloadFile", "UploadFile"}, f \in Formats}

\* Exec commands: an executable and its arguments
ExecCmd(executable, args) ==
    [op |-> "Exec", tags |-> {}, executable |-> executable, args |-> args]

ExecCommands == {ExecCmd("sh", args) : args \in {<<>>, <<"-c">>, <<"-c", "ls">>}}

\* The chunks of an exec stream, as bytes: "h", the two bytes of U+00E9,
\* and each of these two bytes alone.
OutputChunks == {<<104>>, <<195, 169>>, <<195>>, <<169>>}

\* the status codes a destination answers a PUT with
Statuses == {200, 204, 302, 404, 500}

\* A tar stream that holds one file, and the bytes of that file.
FileBytes == <<"file bytes">>
TarStream == <<"tar header">> \o FileBytes

\* provision::download_stream(uri): what the URI of a download serves
Payload(format) == IF format = "Raw" THEN FileBytes ELSE TarStream

\* ConnectModeMessage { mode, save } and what the other actors answer to
\* the requests of its handler: the config save and the connection
\* manager's AutoMdns (no change, a change, or an error), ListSockets (the
\* connected hubs), GetConfig (the saved hub_addrs), and the hubs whose
\* Disconnect fails
Hubs == 1..MaxHubs
Changes == {"None", "Some", "Err"}

ConnectModeInputs ==
    [mode : {"Auto", "Manual"}, save : BOOLEAN, edit : Changes, state : Changes,
     list_ok : BOOLEAN, connected : SUBSET Hubs,
     config_ok : BOOLEAN, hub_addrs : SUBSET Hubs, failing : SUBSET Hubs]

\* ---------------------------------------------------------------- messages
\* A result string: its fixed text and the value formatted into it.
Msg(text, arg) == [text |-> text, arg |-> arg]

\* Error::NoSuchSession(id).to_string()
NoSuchSessionMsg(sid) == Msg("no such session", {sid})

\* Ok(..) payload of a command the engine carried out
EngineOkMsg(op) ==
    CASE op = "Open" -> Msg("OK", {})
      [] op = "Close" -> Msg("OK", {})
      [] op = "Exec" -> Msg("exec output", {})
      [] op = "DownloadFile" -> Msg("OK", {})
      [] op = "UploadFile" -> Msg("file uploaded", {})

\* Err(format!("{}", e)) of a command the engine failed
EngineErrMsg(op) ==
    IF op = "UploadFile" THEN Msg("Unsuccessful file upload", {}) ELSE Msg("docker error", {})

VARIABLES
    actor,        \* lifecycle of the DockerMan actor
    docker_api,   \* DockerMan.docker_api is Some
    envman,       \* environment names registered with envman
    deploys,      \* DockerMan.deploys: session id -> DockerSession
    created,      \* containers the engine has created (ids 1..created)
    tasks,        \* futures spawned on the actor context, oldest first
    reply         \* the response sent by the last step, if any

vars == <<actor, docker_api, envman, deploys, created, tasks, reply>>

\* ----------------------------------------------------------------- replies
NoReply ==
    [kind |-> "none", via |-> "none", sid |-> 0, ok |-> TRUE, err |-> "",
     vec |-> <<>>, cmds |-> <<>>, log |-> <<>>, infos |-> {},
     volumes |-> <<>>, binds |-> <<>>]

Reply(kind, via, sid, ok, err) ==
    [NoReply EXCEPT !.kind = kind, !.via = via, !.sid = sid, !.ok = ok, !.err = err]

\* ------------------------------------------------------------------- tasks
\* self.workspaces_man.workspace(): a workspace with nothing recorded yet
EmptyWorkspace == [tags |-> {}, volumes |-> {}, dirs |-> FALSE]

\* The two halves of a download before their first poll: the chunks the
\* source has yielded (fetched), the messages in the channel (queue), the
\* chunks the engine's archive put has taken (consumed), the item send_all
\* keeps while the sink refuses it (held), the sender parked, and how far
\* the send half and the put half have come.
NoPipe ==
    [fetched |-> 0, queue |-> 0, consumed |-> 0, held |-> FALSE,
     parked |-> FALSE, send |-> "running", put |-> "running"]

Task(kind, sid, cmds, phase) ==
    [kind |-> kind, sid |-> sid, cmds |-> cmds, phase |-> phase,
     idx |-> 1, vec |-> <<>>, log |-> <<>>,
     volumes |-> <<>>, binds |-> <<>>, workspace |-> EmptyWorkspace,
     pipe |-> NoPipe, chunks |-> <<>>]

Event(ev, i, msg) == [ev |-> ev, i |-> i, msg |-> msg]

Without(s, t) == [j \in 1..(Len(s) - 1) |-> IF j < t THEN s[j] ELSE s[j + 1]]

\* ---------------------------------------------------------------- registry
contains_deploy(d, sid) == sid \in DOMAIN d

insert_deploy(d, sid, s) ==
    IF sid \in DOMAIN d THEN d
    ELSE [i \in DOMAIN d \cup {sid} |-> IF i = sid THEN s ELSE d[i]]

add_tags(ws, T) == [ws EXCEPT !.tags = @ \cup T]

remove_tags(ws, T) == [ws EXCEPT !.tags = @ \ T]

\* mutant: the info leaves the tags out
convert_no_tags(d, sid) ==
    [id |-> sid, name |-> d[sid].workspace.name, status |-> d[sid].status,
     tags |-> {}, note |-> "None", processes |-> {}]

\* IntoDeployInfo::convert
convert(d, sid) ==
    [id |-> sid, name |-> d[sid].workspace.name, status |-> d[sid].status,
     tags |-> d[sid].workspace.tags, note |-> "None", processes |-> {}]

deploys_info(d) == {convert(d, sid) : sid \in DOMAIN d}

add_volume(ws, v) == [ws EXCEPT !.volumes = @ \cup {v}]

\* Workspace::create_dirs returning Ok: the root directory exists
create_dirs(ws) == [ws EXCEPT !.dirs = TRUE]

\* mutant: the session is registered with a workspace of its own, not the
\* one the handler prepared
NewSession_fresh_workspace(id, ws) ==
    [workspace |-> [name |-> id, tags |-> {}, volumes |-> {}, dirs |-> FALSE],
     container |-> id, status |-> "CREATED"]

\* mutant: the session is registered as already running
NewSession_running(id, ws) ==
    [workspace |-> [name |-> id, tags |-> ws.tags, volumes |-> ws.volumes,
                    dirs |-> ws.dirs],
     container |-> id, status |-> "RUNNING"]

\* the DockerSession the CreateSession continuation builds around the
\* workspace the handler prepared
NewSession(id, ws) ==
    [workspace |-> [name |-> id, tags |-> ws.tags, volumes |-> ws.volumes,
                    dirs |-> ws.dirs],
     container |-> id, status |-> "CREATED"]

\* VolumeDef::source_dir / target_dir: always Some for BindRw
source_dir(vol) == vol.src
target_dir(vol) == vol.target

\* mutant: the bind string names the target first
bind_string_swapped(s, t) == <<t, ":", s>>

\* format!("{}:{}", s, t)
bind_string(s, t) == <<s, ":", t>>

RECURSIVE binds_and_workspace(_, _)
\* DockerMan::binds_and_workspace: one bind string per declared volume, in
\* order, each volume added to the workspace as its string is made
binds_and_workspace(volumes, ws) ==
    IF volumes = <<>>
    THEN [binds |-> <<>>, workspace |-> ws]
    ELSE LET vol == Head(volumes)
             rest == binds_and_workspace(Tail(volumes), add_volume(ws, vol))
         IN [binds |-> <<bind_string(source_dir(vol), target_dir(vol))>> \o rest.binds,
             workspace |-> rest.workspace]

\* ---------------------------------------------------------------- pipeline
Done(kind, msg, d) == [kind |-> kind, msg |-> msg, d |-> d]

\* mutant: the operation goes to the container of the first session
run_for_deployment_first(d, sid) ==
    IF ~contains_deploy(d, sid)
    THEN Done("err", NoSuchSessionMsg(sid), d)
    ELSE Done("pending",
              Msg("", {d[CHOOSE t \in DOMAIN d : \A u \in DOMAIN d : t <= u].container}), d)

\* DockerMan::run_for_deployment: look the session up, then hand the
\* engine operation on that session's container to the context
run_for_deployment(d, sid) ==
    IF ~contains_deploy(d, sid)
    THEN Done("err", NoSuchSessionMsg(sid), d)
    ELSE Done("pending", Msg("", {d[sid].container}), d)

\* mutant: the DelTags arm adds the tags
run_command_deltags_adds(d, api, sid, c) ==
    IF ~api
    THEN Done("err", Msg("Docker API not initialized properly", {}), d)
    ELSE CASE c.op \in EngineOps -> run_for_deployment(d, sid)
           [] c.op \in MockOps ->
                Done("ok", Msg(IF c.op = "Start" THEN "Start mock" ELSE "Stop mock", {}), d)
           [] c.op = "AddTags" ->
                IF ~contains_deploy(d, sid)
                THEN Done("err", NoSuchSessionMsg(sid), d)
                ELSE LET ws == add_tags(d[sid].workspace, c.tags)
                     IN Done("ok", Msg("tags inserted. Current tags are: ", ws.tags),
                             [d EXCEPT ![sid].workspace = ws])
           [] c.op = "DelTags" ->
                IF ~contains_deploy(d, sid)
                THEN Done("err", NoSuchSessionMsg(sid), d)
                ELSE LET ws == add_tags(d[sid].workspace, c.tags)
                     IN Done("ok", Msg("tags removed. Current tags are: ", ws.tags),
                             [d EXCEPT ![sid].workspace = ws])

\* mutant: the tag messages are formatted before the mutation
run_command_stale_tags(d, api, sid, c) ==
    IF ~api
    THEN Done("err", Msg("Docker API not initialized properly", {}), d)
    ELSE CASE c.op \in EngineOps -> run_for_deployment(d, sid)
           [] c.op \in MockOps ->
                Done("ok", Msg(IF c.op = "Start" THEN "Start mock" ELSE "Stop mock", {}), d)
           [] c.op = "AddTags" ->
                IF ~contains_deploy(d, sid)
                THEN Done("err", NoSuchSessionMsg(sid), d)
                ELSE LET ws == add_tags(d[sid].workspace, c.tags)
                     IN Done("ok", Msg("tags inserted. Current tags are: ", d[sid].workspace.tags),
                             [d EXCEPT ![sid].workspace = ws])
           [] c.op = "DelTags" ->
                IF ~contains_deploy(d, sid)
                THEN Done("err", NoSuchSessionMsg(sid), d)
                ELSE LET ws == remove_tags(d[sid].workspace, c.tags)
                     IN Done("ok", Msg("tags removed. Current tags are: ", d[sid].workspace.tags),
                             [d EXCEPT ![sid].workspace = ws])

\* mutant: the Start and Stop arms set the status of the session
run_command_start_runs(d, api, sid, c) ==
    IF ~api
    THEN Done("err", Msg("Docker API not initialized properly", {}), d)
    ELSE CASE c.op \in EngineOps -> run_for_deployment(d, sid)
           [] c.op \in MockOps ->
                Done("ok", Msg(IF c.op = "Start" THEN "Start mock" ELSE "Stop mock", {}),
                     IF contains_deploy(d, sid)
                     THEN [d EXCEPT ![sid].status = "RUNNING"] ELSE d)
           [] c.op = "AddTags" ->
                IF ~contains_deploy(d, sid)
                THEN Done("err", NoSuchSessionMsg(sid), d)
                ELSE LET ws == add_tags(d[sid].workspace, c.tags)
                     IN Done("ok", Msg("tags inserted. Current tags are: ", ws.tags),
                             [d EXCEPT ![sid].workspace = ws])
           [] c.op = "DelTags" ->
                IF ~contains_deploy(d, sid)
                THEN Done("err", NoSuchSessionMsg(sid), d)
                ELSE LET ws == remove_tags(d[sid].workspace, c.tags)
                     IN Done("ok", Msg("tags removed. Current tags are: ", ws.tags),
                             [d EXCEPT ![sid].workspace = ws])

\* run_command: what calling it does before it returns its future
run_command(d, api, sid, c) ==
    IF ~api
    THEN Done("err", Msg("Docker API not initialized properly", {}), d)
    ELSE CASE c.op \in EngineOps -> run_for_deployment(d, sid)
           [] c.op \in MockOps ->
                Done("ok", Msg(IF c.op = "Start" THEN "Start mock" ELSE "Stop mock", {}), d)
           [] c.op = "AddTags" ->
                IF ~contains_deploy(d, sid)
                THEN Done("err", NoSuchSessionMsg(sid), d)
                ELSE LET ws == add_tags(d[sid].workspace, c.tags)
                     IN Done("ok", Msg("tags inserted. Current tags are: ", ws.tags),
                             [d EXCEPT ![sid].workspace = ws])
           [] c.op = "DelTags" ->
                IF ~contains_deploy(d, sid)
                THEN Done("err", NoSuchSessionMsg(sid), d)
                ELSE LET ws == remove_tags(d[sid].workspace, c.tags)
                     IN Done("ok", Msg("tags removed. Current tags are: ", ws.tags),
                             [d EXCEPT ![sid].workspace = ws])

\* mutant: the fold goes on after a failed command
push_result_resume(vec, ok, msg) == [ok |-> TRUE, vec |-> Append(vec, msg)]

\* mutant: the failure message is not pushed
push_result_drop_err(vec, ok, msg) ==
    [ok |-> ok, vec |-> IF ok THEN Append(vec, msg) ELSE vec]

\* mutant: the newest message is put first
push_result_front(vec, ok, msg) == [ok |-> ok, vec |-> <<msg>> \o vec]

\* the closure run_commands chains after each command: push the message,
\* go on after Ok, resolve the whole fold with Err after Err
push_result(vec, ok, msg) == [ok |-> ok, vec |-> Append(vec, msg)]

\* mutant: a failed command empties the registry, and the fold stops
\* after the command in either case
settle_teardown(d, api, t, ok, msg) ==
    [d |-> IF ok THEN d ELSE <<>>,
     t |-> [t EXCEPT !.vec = Append(@, msg),
                     !.log = Append(@, Event(IF ok THEN "ok" ELSE "err", t.idx, msg)),
                     !.phase = IF ok THEN "ok" ELSE "err"]]

RECURSIVE run_commands(_, _, _), settle(_, _, _, _, _)

\* command t.idx has resolved with (ok, msg): the rest of the same poll
settle(d, api, t, ok, msg) ==
    LET res == push_result(t.vec, ok, msg)
        t2 == [t EXCEPT !.vec = res.vec,
                        !.log = Append(@, Event(IF ok THEN "ok" ELSE "err", t.idx, msg))]
    IN IF res.ok
       THEN run_commands(d, api, [t2 EXCEPT !.idx = @ + 1])
       ELSE [d |-> d, t |-> [t2 EXCEPT !.phase = "err"]]

\* mutant: the fold over no command resolves with an error
run_commands_empty_fails(d, api, t) ==
    IF t.idx > Len(t.cmds)
    THEN [d |-> d, t |-> [t EXCEPT !.phase = IF t.cmds = <<>> THEN "err" ELSE "ok"]]
    ELSE LET r == run_command(d, api, t.sid, t.cmds[t.idx])
             target == IF r.kind = "pending" THEN r.msg ELSE Msg("", {})
             t1 == [t EXCEPT !.log = Append(@, Event("start", t.idx, target))]
         IN IF r.kind = "pending"
            THEN [d |-> d, t |-> [t1 EXCEPT !.phase = "engine"]]
            ELSE settle(r.d, api, t1, r.kind = "ok", r.msg)

\* one poll of the fold built by run_commands, from command t.idx on: it
\* runs until a command is pending on the engine or the fold resolves
run_commands(d, api, t) ==
    IF t.idx > Len(t.cmds)
    THEN [d |-> d, t |-> [t EXCEPT !.phase = "ok"]]
    ELSE LET r == run_command(d, api, t.sid, t.cmds[t.idx])
             target == IF r.kind = "pending" THEN r.msg ELSE Msg("", {})
             t1 == [t EXCEPT !.log = Append(@, Event("start", t.idx, target))]
         IN IF r.kind = "pending"
            THEN [d |-> d, t |-> [t1 EXCEPT !.phase = "engine"]]
            ELSE settle(r.d, api, t1, r.kind = "ok", r.msg)

\* mutant: the handler answers with an empty sequence
NoSuchSessionReply_empty(sid) == <<>>

\* mutant: the handler answers with another error's message
NoSuchSessionReply_env(sid) == <<Msg("unknown env", {sid})>>

\* vec![Error::NoSuchSession(msg.session_id).to_string()]
NoSuchSessionReply(sid) == <<NoSuchSessionMsg(sid)>>

\* provision::untar_single_file_stream: the bytes of the first file entry
untar_single_file_stream(data) == Tail(data)

\* DockerSession::do_download: the fetched stream goes to the container
\* with archive_put_stream, and the command succeeds when both the fetch
\* and the put have ended well
do_download(format, fetch_ok, put_ok) ==
    [call |-> Msg("archive_put_stream", Payload(format)),
     ok |-> fetch_ok /\ put_ok,
     msg |-> IF fetch_ok /\ put_ok THEN Msg("OK", {}) ELSE Msg("transfer error", {})]

\* str::from_utf8(bytes).is_ok(): every byte below 128 stands alone, and a
\* lead byte is followed by its one, two or three continuation bytes
RECURSIVE from_utf8_ok(_)
from_utf8_ok(bytes) ==
    LET cont(k) == k <= Len(bytes) /\ bytes[k] \in 128..191
        rest(k) == [j \in 1..(Len(bytes) - k) |-> bytes[j + k]]
    IN IF bytes = <<>> THEN TRUE
       ELSE IF bytes[1] < 128 THEN from_utf8_ok(rest(1))
       ELSE IF bytes[1] \in 194..223 THEN cont(2) /\ from_utf8_ok(rest(2))
       ELSE IF bytes[1] \in 224..239 THEN cont(2) /\ cont(3) /\ from_utf8_ok(rest(3))
       ELSE IF bytes[1] \in 240..244
            THEN cont(2) /\ cont(3) /\ cont(4) /\ from_utf8_ok(rest(4))
       ELSE FALSE

\* mutant: the closure of the fold pushes every chunk
fold_chunk_lossy(str, chunk) == str \o chunk

\* the closure of the fold in do_exec: push_str of a chunk that decodes
fold_chunk(str, chunk) == IF from_utf8_ok(chunk) THEN str \o chunk ELSE str

\* Stream::fold over the chunks of the exec stream, from String::new()
RECURSIVE fold(_, _)
fold(str, chunks) ==
    IF chunks = <<>> THEN str ELSE fold(fold_chunk(str, Head(chunks)), Tail(chunks))

\* DockerSession::do_exec: the executable goes in front of the arguments,
\* the exec is attached to the container, and the stream is folded; an
\* error of the stream resolves the fold with the text of the error
do_exec(executable, args, chunks, stream_ok) ==
    [call |-> Msg("exec", <<executable>> \o args),
     ok |-> stream_ok,
     msg |-> IF stream_ok THEN Msg("output", fold(<<>>, chunks))
             ELSE Msg("exec stream error", {})]

\* mutant: the sender is never parked
start_send_no_park(p) ==
    IF p.put # "running" THEN [p EXCEPT !.send = "failed"]
    ELSE [p EXCEPT !.queue = @ + 1]

\* Sender::start_send with a chunk in hand: an error once the receiver
\* is gone, NotReady(item) while the sender is parked (send_all keeps the
\* item), and otherwise the message is queued and the sender parks when
\* the channel then holds more messages than its buffer
start_send(p) ==
    IF p.put # "running" THEN [p EXCEPT !.send = "failed"]
    ELSE IF p.parked THEN [p EXCEPT !.held = TRUE]
    ELSE [p EXCEPT !.queue = @ + 1, !.parked = (p.queue + 1 > ChannelBuffer),
                   !.held = FALSE]

\* SendAll::poll up to its poll of the source: the item it keeps is
\* offered to the sink again
flush(p) == IF p.held /\ p.send = "running" THEN start_send(p) ELSE p

\* mutant: the join resolves as soon as one half has ended
joined_either(p) == p.send # "running" \/ p.put # "running"

\* recv_fut.join(send_fut): an error of either half resolves the join at
\* once, and the join is ready when both halves are
joined(p) == p.send = "failed" \/ p.put = "failed" \/ (p.send = "done" /\ p.put = "done")

\* mutant: the tar stream is forwarded whatever the format
upload_body_forward(format, data) == data

\* the body do_upload gives the PUT request
upload_body(format, data) ==
    IF format = "Raw" THEN untar_single_file_stream(data) ELSE data

\* mutant: every status below 400 counts as a success
is_success_lenient(status) == status < 400

\* res.status().is_success()
is_success(status) == status \in 200..299

\* DockerSession::do_upload: archive_get, the PUT request built and sent,
\* and the answer of the destination
do_upload(format, build_ok, send_ok, status) ==
    [call |-> Msg("put", upload_body(format, TarStream)),
     answer |-> CASE ~build_ok -> Msg("request not built", {})
                  [] build_ok /\ ~send_ok -> Msg("request not sent", {})
                  [] OTHER -> Msg("answered", {status}),
     ok |-> build_ok /\ send_ok /\ is_success(status),
     msg |-> CASE ~build_ok -> Msg("request error", {})
               [] build_ok /\ ~send_ok -> Msg("send error", {})
               [] build_ok /\ send_ok /\ is_success(status) -> Msg("file uploaded", {})
               [] OTHER -> Msg("Unsuccessful file upload", {status})]

\* mutant: the futures in flight push into one vector
Resolve_shared(n, r) ==
    LET shared == [k \in 1..Len(tasks) |->
                      IF k = n THEN r.t ELSE [tasks[k] EXCEPT !.vec = r.t.vec]]
    IN /\ deploys' = r.d
       /\ IF r.t.phase = "engine"
          THEN /\ tasks' = shared
               /\ reply' = NoReply
          ELSE /\ tasks' = Without(shared, n)
               /\ reply' = [Reply("update", "future", r.t.sid, r.t.phase = "ok", "")
                               EXCEPT !.vec = r.t.vec, !.cmds = r.t.cmds, !.log = r.t.log]

\* the outcome of a poll of the fold of task number n
Resolve(n, r) ==
    /\ deploys' = r.d
    /\ IF r.t.phase = "engine"
       THEN /\ tasks' = [tasks EXCEPT ![n] = r.t]
            /\ reply' = NoReply
       ELSE /\ tasks' = Without(tasks, n)
            /\ reply' = [Reply("update", "future", r.t.sid, r.t.phase = "ok", "")
                            EXCEPT !.vec = r.t.vec, !.cmds = r.t.cmds, !.log = r.t.log]

\* ------------------------------------------------------------- environment
\* The callers keep at most MaxPending commands and engine requests
\* outstanding, and the engine has MaxSessions container ids to give.
Weight(kind, cmds) == IF kind = "update" /\ Len(cmds) > 1 THEN Len(cmds) ELSE 1

RECURSIVE PendingFrom(_)
PendingFrom(n) ==
    IF n > Len(tasks) THEN 0
    ELSE Weight(tasks[n].kind, tasks[n].cmds) + PendingFrom(n + 1)

Room(w) == PendingFrom(1) + w <= MaxPending

BatchesOf(len) == [1..len -> Commands]

CreatesInFlight == Cardinality({n \in 1..Len(tasks) : tasks[n].kind = "create"})

IdsLeft == created + CreatesInFlight < MaxSessions

Tasks == 1..MaxPending

Init ==
    /\ actor = "new"
    /\ docker_api = FALSE
    /\ envman = {}
    /\ deploys = <<>>
    /\ created = 0
    /\ tasks = <<>>
    /\ reply = NoReply

\* mutant: the backend registers itself whatever new_docker returned
Started_registers(ok) ==
    /\ actor = "new"
    /\ envman' = envman \cup {"docker"}
    /\ IF ok
       THEN docker_api' = TRUE /\ actor' = "running"
       ELSE actor' = "stopped" /\ UNCHANGED docker_api
    /\ reply' = NoReply
    /\ UNCHANGED <<deploys, created, tasks>>

\* Actor::started
Started(ok) ==
    /\ actor = "new"
    /\ IF ok
       THEN /\ docker_api' = TRUE
            /\ envman' = envman \cup {"docker"}
            /\ actor' = "running"
       ELSE /\ actor' = "stopped"
            /\ UNCHANGED <<docker_api, envman>>
    /\ reply' = NoReply
    /\ UNCHANGED <<deploys, created, tasks>>

\* Handler<CreateSession<CreateOptions>>::handle
HandleCreateSession(dirs_ok, volumes) ==
    /\ actor = "running"
    /\ IF docker_api
       THEN IF dirs_ok
            THEN LET bw == binds_and_workspace(volumes, EmptyWorkspace)
                 IN tasks' = Append(tasks,
                              [Task("create", 0, <<>>, "pull")
                                  EXCEPT !.log = <<Event("start", 1, Msg("pull", {}))>>,
                                         !.volumes = volumes,
                                         !.binds = bw.binds,
                                         !.workspace = create_dirs(bw.workspace)])
                 /\ reply' = NoReply
                 /\ UNCHANGED actor
            ELSE \* create_dirs().expect(..) panics: the actor is gone
                 /\ actor' = "panicked"
                 /\ tasks' = <<>>
                 /\ reply' = NoReply
       ELSE /\ reply' = Reply("create", "handler", 0, FALSE, "UnknownEnv")
            /\ UNCHANGED <<actor, tasks>>
    /\ UNCHANGED <<docker_api, envman, deploys, created>>

\* mutant: the container create is chained after a failed pull as well
pull_and_then_always(ok) == "create"

\* pull_image_fut.for_each(..).and_then(|_| create_container_fut): what the
\* chain does when the pull stream has ended
pull_and_then(ok) == IF ok THEN "create" ELSE "err"

\* the image pull of a CreateSession has ended
PullDone(n, ok) ==
    /\ actor = "running"
    /\ n \in 1..Len(tasks)
    /\ tasks[n].kind = "create"
    /\ tasks[n].phase = "pull"
    /\ LET log == Append(tasks[n].log,
                         Event(IF ok THEN "ok" ELSE "err", 1, Msg("pull", {})))
       IN IF pull_and_then(ok) = "create"
          THEN /\ tasks' = [tasks EXCEPT ![n].phase = "create",
                                         ![n].log = Append(log, Event("start", 2, Msg("create", {})))]
               /\ reply' = NoReply
          ELSE /\ tasks' = Without(tasks, n)
               /\ reply' = [Reply("create", "future", 0, FALSE, "IoError")
                               EXCEPT !.log = log]
    /\ UNCHANGED <<actor, docker_api, envman, deploys, created>>

\* the container create of a CreateSession has ended; on success the
\* continuation registers the session in the same poll
CreateDone(n, ok) ==
    /\ actor = "running"
    /\ n \in 1..Len(tasks)
    /\ tasks[n].kind = "create"
    /\ tasks[n].phase = "create"
    /\ tasks' = Without(tasks, n)
    /\ LET log == Append(tasks[n].log,
                         Event(IF ok THEN "ok" ELSE "err", 2, Msg("create", {})))
       IN IF ok
          THEN LET id == created + 1
               IN /\ created' = id
                  /\ IF docker_api
                     THEN /\ deploys' = insert_deploy(deploys, id,
                                                      NewSession(id, tasks[n].workspace))
                          /\ reply' = [Reply("create", "future", id, TRUE, "")
                                          EXCEPT !.log = log,
                                                 !.volumes = tasks[n].volumes,
                                                 !.binds = tasks[n].binds]
                     ELSE /\ reply' = [Reply("create", "future", 0, FALSE, "UnknownEnv")
                                          EXCEPT !.log = log]
                          /\ UNCHANGED deploys
          ELSE /\ reply' = [Reply("create", "future", 0, FALSE, "IoError")
                              EXCEPT !.log = log]
               /\ UNCHANGED <<deploys, created>>
    /\ UNCHANGED <<actor, docker_api, envman>>

\* Handler<SessionUpdate>::handle
HandleSessionUpdate(sid, cmds) ==
    /\ actor = "running"
    /\ IF ~contains_deploy(deploys, sid)
       THEN /\ reply' = [Reply("update", "handler", sid, FALSE, "")
                            EXCEPT !.vec = NoSuchSessionReply(sid)]
            /\ UNCHANGED tasks
       ELSE /\ tasks' = Append(tasks, Task("update", sid, cmds, "spawned"))
            /\ reply' = NoReply
    /\ UNCHANGED <<actor, docker_api, envman, deploys, created>>

\* the first poll of the future of a SessionUpdate; the handlers of the
\* messages already waiting in the mailbox run before it
PollUpdate(n) ==
    /\ actor = "running"
    /\ n \in 1..Len(tasks)
    /\ tasks[n].kind = "update"
    /\ tasks[n].phase = "spawned"
    /\ Resolve(n, run_commands(deploys, docker_api, tasks[n]))
    /\ UNCHANGED <<actor, docker_api, envman, created>>

\* the engine operation a batch is waiting for has ended, and the future
\* of the batch is polled again
EngineDone(n, ok) ==
    /\ actor = "running"
    /\ n \in 1..Len(tasks)
    /\ tasks[n].kind = "update"
    /\ tasks[n].phase = "engine"
    /\ LET op == tasks[n].cmds[tasks[n].idx].op
           msg == IF ok THEN EngineOkMsg(op) ELSE EngineErrMsg(op)
       IN Resolve(n, settle(deploys, docker_api, tasks[n], ok, msg))
    /\ UNCHANGED <<actor, docker_api, envman, created>>

\* the transfer of a DownloadFile command has ended
DownloadDone(n, fetch_ok, put_ok) ==
    /\ actor = "running"
    /\ n \in 1..Len(tasks)
    /\ tasks[n].kind = "update"
    /\ tasks[n].phase = "engine"
    /\ tasks[n].cmds[tasks[n].idx].op = "DownloadFile"
    /\ LET t == tasks[n]
           r == do_download(t.cmds[t.idx].format, fetch_ok, put_ok)
           t1 == [t EXCEPT !.log = Append(@, Event("call", t.idx, r.call))]
       IN Resolve(n, settle(deploys, docker_api, t1, r.ok, r.msg))
    /\ UNCHANGED <<actor, docker_api, envman, created>>

\* the transfer of an UploadFile command has ended
UploadDone(n, build_ok, send_ok, status) ==
    /\ actor = "running"
    /\ n \in 1..Len(tasks)
    /\ tasks[n].kind = "update"
    /\ tasks[n].phase = "engine"
    /\ tasks[n].cmds[tasks[n].idx].op = "UploadFile"
    /\ LET t == tasks[n]
           r == do_upload(t.cmds[t.idx].format, build_ok, send_ok, status)
           t1 == [t EXCEPT !.log = @ \o <<Event("call", t.idx, r.call),
                                          Event("answer", t.idx, r.answer)>>]
       IN Resolve(n, settle(deploys, docker_api, t1, r.ok, r.msg))
    /\ UNCHANGED <<actor, docker_api, envman, created>>

\* one poll of the join of a download, after which the halves are as p
\* says: the fold goes on when the join has resolved
PipeStep(n, p) ==
    LET t == tasks[n]
        r == do_download(t.cmds[t.idx].format, p.send = "done", p.put = "done")
        t1 == [t EXCEPT !.pipe = NoPipe,
                        !.log = @ \o <<Event("call", t.idx, r.call),
                                       Event("join", t.idx,
                                             Msg("join", <<p.send, p.put, p.held>>))>>]
    IN /\ IF joined(p)
          THEN Resolve(n, settle(deploys, docker_api, t1, r.ok, r.msg))
          ELSE /\ tasks' = [tasks EXCEPT ![n].pipe = p]
               /\ reply' = NoReply
               /\ UNCHANGED deploys
       /\ UNCHANGED <<actor, docker_api, envman, created>>

\* a batch is waiting for the two halves of a DownloadFile command
Downloading(n) ==
    /\ actor = "running"
    /\ n \in 1..Len(tasks)
    /\ tasks[n].kind = "update"
    /\ tasks[n].phase = "engine"
    /\ tasks[n].cmds[tasks[n].idx].op = "DownloadFile"

\* the source has a chunk: send_all takes it and offers it to the sink
FetchChunk(n) ==
    /\ Downloading(n)
    /\ tasks[n].pipe.send = "running"
    /\ ~tasks[n].pipe.held
    /\ tasks[n].pipe.fetched < MaxChunks
    /\ PipeStep(n, start_send([tasks[n].pipe EXCEPT !.fetched = @ + 1]))

\* the source has ended: send_all closes the sink, and the sender is
\* dropped with the closure of and_then
SourceEnd(n) ==
    /\ Downloading(n)
    /\ tasks[n].pipe.send = "running"
    /\ ~tasks[n].pipe.held
    /\ PipeStep(n, [tasks[n].pipe EXCEPT !.send = "done"])

\* the source has failed
SourceFail(n) ==
    /\ Downloading(n)
    /\ tasks[n].pipe.send = "running"
    /\ ~tasks[n].pipe.held
    /\ PipeStep(n, [tasks[n].pipe EXCEPT !.send = "failed"])

\* the engine's archive put takes a message off the channel, which
\* unparks the sender; the send half is polled in the same poll
PutChunk(n) ==
    /\ Downloading(n)
    /\ tasks[n].pipe.put = "running"
    /\ tasks[n].pipe.queue > 0
    /\ PipeStep(n, flush([tasks[n].pipe EXCEPT !.queue = @ - 1, !.consumed = @ + 1,
                                              !.parked = FALSE]))

\* the engine's archive put has ended, and the receiver is dropped with
\* it; the engine answers when it chooses to
PutEnd(n, ok) ==
    /\ Downloading(n)
    /\ tasks[n].pipe.put = "running"
    /\ PipeStep(n, flush([tasks[n].pipe EXCEPT !.put = IF ok THEN "done" ELSE "failed",
                                              !.parked = FALSE]))

\* a batch is waiting for the exec stream of an Exec command
Executing(n) ==
    /\ actor = "running"
    /\ n \in 1..Len(tasks)
    /\ tasks[n].kind = "update"
    /\ tasks[n].phase = "engine"
    /\ tasks[n].cmds[tasks[n].idx].op = "Exec"

\* the exec stream has yielded a chunk of output
ExecChunk(n, chunk) ==
    /\ Executing(n)
    /\ Len(tasks[n].chunks) < MaxOutput
    /\ tasks' = [tasks EXCEPT ![n].chunks = Append(@, chunk)]
    /\ reply' = NoReply
    /\ UNCHANGED <<actor, docker_api, envman, deploys, created>>

\* the exec stream has ended, or has failed
ExecEnd(n, stream_ok) ==
    /\ Executing(n)
    /\ LET t == tasks[n]
           c == t.cmds[t.idx]
           r == do_exec(c.executable, c.args, t.chunks, stream_ok)
           t1 == [t EXCEPT !.chunks = <<>>,
                           !.log = @ \o <<Event("call", t.idx, r.call),
                                          Event("stream", t.idx,
                                                Msg("stream", <<t.chunks, stream_ok>>))>>]
       IN Resolve(n, settle(deploys, docker_api, t1, r.ok, r.msg))
    /\ UNCHANGED <<actor, docker_api, envman, created>>

\* optional_save_future(f, save)
optional_save_future(edit, save) == IF save THEN edit ELSE "None"

\* mutant: every connected hub is disconnected
disconnect_all(connected, saved_hubs) == connected

\* the filter_map over the connected hubs: the hubs a Disconnect is sent to
disconnect_unsaved(connected, saved_hubs) == {hub \in connected : hub \notin saved_hubs}

\* the future of Handler<ConnectModeMessage>::handle: its result and the
\* hubs it has sent a Disconnect to
connect_mode(m) ==
    LET save == optional_save_future(m.edit, m.save)
        auto_on == m.mode = "Auto"
        out(result, sent) == [result |-> result, sent |-> sent]
    IN IF save = "Err" \/ m.state = "Err" THEN out("Err", {})
       ELSE IF save = "None" /\ m.state = "None" THEN out("None", {})
       ELSE IF ~m.list_ok THEN out("Err", {})
       ELSE IF auto_on THEN out("None", {})
       ELSE IF ~m.config_ok THEN out("Err", {})
       ELSE LET sent == disconnect_unsaved(m.connected, m.hub_addrs)
            IN out(IF sent \cap m.failing # {} THEN "Err" ELSE "Some", sent)

\* Handler<ConnectModeMessage>::handle, with the future it returns
HandleConnectMode(m) ==
    /\ LET r == connect_mode(m)
       IN reply' = [Reply("connect_mode", "future", 0, r.result # "Err", "")
                       EXCEPT !.cmds = <<m>>,
                              !.vec = <<Msg(r.result, {})>>,
                              !.log = <<Event("send", 1, Msg("AutoMdns", {m.mode = "Auto"})),
                                        Event("send", 2, Msg("publish_service", {m.mode = "Auto"})),
                                        Event("send", 3, Msg("Disconnect", r.sent))>>]
    /\ UNCHANGED <<actor, docker_api, envman, deploys, created, tasks>>

\* Handler<GetSessions>::handle
HandleGetSessions ==
    /\ actor = "running"
    /\ reply' = [Reply("list", "handler", 0, TRUE, "") EXCEPT !.infos = deploys_info(deploys)]
    /\ UNCHANGED <<actor, docker_api, envman, deploys, created, tasks>>

\* Handler<DestroySession>::handle
HandleDestroySession(sid) ==
    /\ actor = "running"
    /\ IF docker_api
       THEN /\ tasks' = Append(tasks, Task("destroy", sid, <<>>, "delete"))
            /\ reply' = NoReply
       ELSE /\ reply' = Reply("destroy", "handler", sid, FALSE, "UnknownEnv")
            /\ UNCHANGED tasks
    /\ UNCHANGED <<actor, docker_api, envman, deploys, created>>

\* mutant: a failed delete clears the engine handle
DeleteDone_clears_handle(n, ok) ==
    /\ actor = "running"
    /\ n \in 1..Len(tasks)
    /\ tasks[n].kind = "destroy"
    /\ tasks[n].phase = "delete"
    /\ ok => tasks[n].sid \in 1..created
    /\ tasks' = Without(tasks, n)
    /\ reply' = IF ok
                THEN Reply("destroy", "future", tasks[n].sid, TRUE, "done")
                ELSE Reply("destroy", "future", tasks[n].sid, FALSE, "Error(docker error)")
    /\ docker_api' = (docker_api /\ ok)
    /\ UNCHANGED <<actor, envman, deploys, created>>

\* the engine's container delete of a DestroySession has ended
DeleteDone(n, ok) ==
    /\ actor = "running"
    /\ n \in 1..Len(tasks)
    /\ tasks[n].kind = "destroy"
    /\ tasks[n].phase = "delete"
    /\ ok => tasks[n].sid \in 1..created    \* the engine knows the container
    /\ tasks' = Without(tasks, n)
    /\ reply' = IF ok
                THEN Reply("destroy", "future", tasks[n].sid, TRUE, "done")
                ELSE Reply("destroy", "future", tasks[n].sid, FALSE, "Error(docker error)")
    /\ UNCHANGED <<actor, docker_api, envman, deploys, created>>

\* the engine has deleted its newest container and is free to give the
\* id of that container to the next one it creates
DeleteRecycled(n) ==
    /\ actor = "running"
    /\ n \in 1..Len(tasks)
    /\ tasks[n].kind = "destroy"
    /\ tasks[n].phase = "delete"
    /\ tasks[n].sid = created
    /\ created > 0
    /\ created' = created - 1
    /\ tasks' = Without(tasks, n)
    /\ reply' = Reply("destroy", "future", tasks[n].sid, TRUE, "done")
    /\ UNCHANGED <<actor, docker_api, envman, deploys>>

\* mutant: every environment name resolves
resolve_any(reg, name) == TRUE

\* envman: a name resolves when a backend registered under it
resolve(reg, name) == name \in reg

\* a CreateSession or DestroySession for the docker environment that no
\* running backend takes:
\* envman answers it when the name does not resolve, and the closed
\* mailbox of the backend answers it otherwise
Unrouted(kind, sid) ==
    /\ actor # "running"
    /\ reply' = Reply(kind, "envman", sid, FALSE,
                      IF resolve(envman, "docker") THEN "MailboxError" ELSE "UnknownEnv")
    /\ UNCHANGED <<actor, docker_api, envman, deploys, created, tasks>>

\* another backend registers itself with envman during its own startup
RegisterOther(name) ==
    /\ name \notin envman
    /\ envman' = envman \cup {name}
    /\ reply' = NoReply
    /\ UNCHANGED <<actor, docker_api, deploys, created, tasks>>

\* the caller takes the response off its channel
Deliver ==
    /\ reply # NoReply
    /\ reply' = NoReply
    /\ UNCHANGED <<actor, docker_api, envman, deploys, created, tasks>>

Free == reply = NoReply

Next ==
    \/ \E ok \in BOOLEAN : Started(ok)
    \/ Free /\ Room(1) /\ IdsLeft /\ \E dirs_ok \in BOOLEAN : HandleCreateSession(dirs_ok, <<>>)
    \/ Free /\ \E n \in Tasks, ok \in BOOLEAN : PullDone(n, ok)
    \/ Free /\ \E n \in Tasks, ok \in BOOLEAN : CreateDone(n, ok)
    \/ Free /\ \E len \in 0..MaxPending :
                 /\ Room(Weight("update", [i \in 1..len |-> i]))
                 /\ \E sid \in RequestIds(deploys), cmds \in BatchesOf(len) :
                        HandleSessionUpdate(sid, cmds)
    \/ Free /\ \E n \in Tasks : PollUpdate(n)
    \/ Free /\ \E n \in Tasks, ok \in BOOLEAN : EngineDone(n, ok)
    \/ Free /\ HandleGetSessions
    \/ Free /\ Room(1) /\ \E sid \in RequestIds(deploys) : HandleDestroySession(sid)
    \/ Free /\ \E n \in Tasks, ok \in BOOLEAN : DeleteDone(n, ok)
    \/ Free /\ \E kind \in {"create", "destroy"} :
                 \E sid \in (IF kind = "create" THEN {0} ELSE RequestIds(deploys)) :
                     Unrouted(kind, sid)
    \/ Deliver

Spec == Init /\ [][Next]_vars

\* CreateSession requests that declare volumes, one request at a time
NextVolumes ==
    \/ \E ok \in BOOLEAN : Started(ok)
    \/ Free /\ tasks = <<>> /\ IdsLeft /\
         \E volumes \in VolumeLists : HandleCreateSession(TRUE, volumes)
    \/ Free /\ \E n \in Tasks, ok \in BOOLEAN : PullDone(n, ok)
    \/ Free /\ \E n \in Tasks, ok \in BOOLEAN : CreateDone(n, ok)
    \/ Free /\ HandleGetSessions
    \/ Deliver

SpecVolumes == Init /\ [][NextVolumes]_vars

\* Batches of up to MaxBatch commands over two tags, each run alone on a
\* session that has no tag yet
BatchCommands ==
    {Cmd("AddTags", {"gpu"}), Cmd("AddTags", {"extra"}), Cmd("DelTags", {"gpu"}),
     Cmd("Exec", {})}

Untagged == \A sid \in DOMAIN deploys : deploys[sid].workspace.tags = {}

NextBatch ==
    \/ \E ok \in BOOLEAN : Started(ok)
    \/ Free /\ tasks = <<>> /\ created = 0 /\ HandleCreateSession(TRUE, <<>>)
    \/ Free /\ \E n \in Tasks, ok \in BOOLEAN : PullDone(n, ok)
    \/ Free /\ \E n \in Tasks, ok \in BOOLEAN : CreateDone(n, ok)
    \/ Free /\ tasks = <<>> /\ Untagged /\
         \E len \in 0..MaxBatch :
            \E sid \in DOMAIN deploys, cmds \in [1..len -> BatchCommands] :
                HandleSessionUpdate(sid, cmds)
    \/ Free /\ \E n \in Tasks : PollUpdate(n)
    \/ Free /\ \E n \in Tasks, ok \in BOOLEAN : EngineDone(n, ok)
    \/ Free /\ HandleGetSessions
    \/ Deliver

SpecBatch == Init /\ [][NextBatch]_vars

\* An engine that gives the id of a deleted container to a later one:
\* sessions are created, tagged and destroyed one request at a time
NextReuse ==
    \/ \E ok \in BOOLEAN : Started(ok)
    \/ Free /\ tasks = <<>> /\ IdsLeft /\ HandleCreateSession(TRUE, <<>>)
    \/ Free /\ \E n \in Tasks, ok \in BOOLEAN : PullDone(n, ok)
    \/ Free /\ \E n \in Tasks, ok \in BOOLEAN : CreateDone(n, ok)
    \/ Free /\ tasks = <<>> /\
         \E sid \in DOMAIN deploys, cmds \in BatchesOf(1) : HandleSessionUpdate(sid, cmds)
    \/ Free /\ \E n \in Tasks : PollUpdate(n)
    \/ Free /\ \E n \in Tasks, ok \in BOOLEAN : EngineDone(n, ok)
    \/ Free /\ HandleGetSessions
    \/ Free /\ tasks = <<>> /\ \E sid \in DOMAIN deploys : HandleDestroySession(sid)
    \/ Free /\ \E n \in Tasks, ok \in BOOLEAN : DeleteDone(n, ok)
    \/ Free /\ \E n \in Tasks : DeleteRecycled(n)
    \/ Deliver

SpecReuse == Init /\ [][NextReuse]_vars

\* The startup of the docker backend next to the startup of another
\* backend, followed by requests handled one at a time
NextStartup ==
    \/ \E ok \in BOOLEAN : Started(ok)
    \/ RegisterOther("hd")
    \/ Free /\ tasks = <<>> /\ IdsLeft /\ HandleCreateSession(TRUE, <<>>)
    \/ Free /\ \E n \in Tasks, ok \in BOOLEAN : PullDone(n, ok)
    \/ Free /\ \E n \in Tasks, ok \in BOOLEAN : CreateDone(n, ok)
    \/ Free /\ tasks = <<>> /\
         \E sid \in DOMAIN deploys, cmds \in BatchesOf(1) : HandleSessionUpdate(sid, cmds)
    \/ Free /\ \E n \in Tasks : PollUpdate(n)
    \/ Free /\ \E n \in Tasks, ok \in BOOLEAN : EngineDone(n, ok)
    \/ Free /\ HandleGetSessions
    \/ Free /\ \E kind \in {"create", "destroy"} :
                 \E sid \in (IF kind = "create" THEN {0} ELSE RequestIds(deploys)) :
                     Unrouted(kind, sid)
    \/ Deliver

SpecStartup == Init /\ [][NextStartup]_vars

\* DownloadFile and UploadFile commands in both formats, one batch at a
\* time on one session, with every outcome of the fetch, of the engine
\* and of the destination
NextTransfer ==
    \/ \E ok \in BOOLEAN : Started(ok)
    \/ Free /\ tasks = <<>> /\ created = 0 /\ HandleCreateSession(TRUE, <<>>)
    \/ Free /\ \E n \in Tasks, ok \in BOOLEAN : PullDone(n, ok)
    \/ Free /\ \E n \in Tasks, ok \in BOOLEAN : CreateDone(n, ok)
    \/ Free /\ tasks = <<>> /\
         \E len \in 0..MaxPending :
            \E sid \in DOMAIN deploys, cmds \in [1..len -> TransferCommands] :
                HandleSessionUpdate(sid, cmds)
    \/ Free /\ \E n \in Tasks : PollUpdate(n)
    \/ Free /\ \E n \in Tasks, fetch_ok \in BOOLEAN, put_ok \in BOOLEAN :
                 DownloadDone(n, fetch_ok, put_ok)
    \/ Free /\ \E n \in Tasks, build_ok \in BOOLEAN, send_ok \in BOOLEAN, status \in Statuses :
                 UploadDone(n, build_ok, send_ok, status)
    \/ Deliver

SpecTransfer == Init /\ [][NextTransfer]_vars

\* One DownloadFile command at a time on one session, chunk by chunk:
\* the source, the channel and the engine's archive put
NextPipe ==
    \/ \E ok \in BOOLEAN : Started(ok)
    \/ Free /\ tasks = <<>> /\ created = 0 /\ HandleCreateSession(TRUE, <<>>)
    \/ Free /\ \E n \in Tasks, ok \in BOOLEAN : PullDone(n, ok)
    \/ Free /\ \E n \in Tasks, ok \in BOOLEAN : CreateDone(n, ok)
    \/ Free /\ tasks = <<>> /\
         \E sid \in DOMAIN deploys, format \in Formats :
             HandleSessionUpdate(sid, <<TransferCmd("DownloadFile", format)>>)
    \/ Free /\ \E n \in Tasks : PollUpdate(n)
    \/ Free /\ \E n \in Tasks : FetchChunk(n)
    \/ Free /\ \E n \in Tasks : SourceEnd(n)
    \/ Free /\ \E n \in Tasks : SourceFail(n)
    \/ Free /\ \E n \in Tasks : PutChunk(n)
    \/ Free /\ \E n \in Tasks, ok \in BOOLEAN : PutEnd(n, ok)
    \/ Deliver

SpecPipe == Init /\ [][NextPipe]_vars

\* One Exec command at a time on one session, with the chunks of its
\* output stream
NextExec ==
    \/ \E ok \in BOOLEAN : Started(ok)
    \/ Free /\ tasks = <<>> /\ created = 0 /\ HandleCreateSession(TRUE, <<>>)
    \/ Free /\ \E n \in Tasks, ok \in BOOLEAN : PullDone(n, ok)
    \/ Free /\ \E n \in Tasks, ok \in BOOLEAN : CreateDone(n, ok)
    \/ Free /\ tasks = <<>> /\
         \E sid \in DOMAIN deploys, c \in ExecCommands : HandleSessionUpdate(sid, <<c>>)
    \/ Free /\ \E n \in Tasks : PollUpdate(n)
    \/ Free /\ \E n \in Tasks, chunk \in OutputChunks : ExecChunk(n, chunk)
    \/ Free /\ \E n \in Tasks, stream_ok \in BOOLEAN : ExecEnd(n, stream_ok)
    \/ Deliver

SpecExec == Init /\ [][NextExec]_vars

\* Several batches outstanding at once on one session, of commands the
\* engine takes its time for (Exec) and commands answered at once (Start)
PairCommands == {Cmd("Exec", {}), Cmd("Start", {})}

NextConcurrent ==
    \/ \E ok \in BOOLEAN : Started(ok)
    \/ Free /\ tasks = <<>> /\ created = 0 /\ HandleCreateSession(TRUE, <<>>)
    \/ Free /\ \E n \in Tasks, ok \in BOOLEAN : PullDone(n, ok)
    \/ Free /\ \E n \in Tasks, ok \in BOOLEAN : CreateDone(n, ok)
    \/ Free /\ Len(tasks) < MaxPending /\ created = 1 /\
         \E len \in 1..MaxPending :
            \E sid \in DOMAIN deploys, cmds \in [1..len -> PairCommands] :
                HandleSessionUpdate(sid, cmds)
    \/ Free /\ \E n \in Tasks : PollUpdate(n)
    \/ Free /\ \E n \in Tasks, ok \in BOOLEAN : EngineDone(n, ok)
    \/ Deliver

SpecConcurrent == Init /\ [][NextConcurrent]_vars

\* The provider server takes ConnectModeMessages, one at a time
NextConnectMode ==
    \/ Free /\ \E m \in ConnectModeInputs : HandleConnectMode(m)
    \/ Deliver

SpecConnectMode == Init /\ [][NextConnectMode]_vars

\* ================================================================== claims
\* The response of a SessionUpdate whose batch ran in the pipeline.
BatchReply == reply.kind = "update" /\ reply.via = "future"

\* What the pipeline did, read off the events of a batch.
Attempted(log) == {log[j].i : j \in {x \in 1..Len(log) : log[x].ev = "start"}}
Failed(log) == {log[j].i : j \in {x \in 1..Len(log) : log[x].ev = "err"}}
Succeeded(log) == {log[j].i : j \in {x \in 1..Len(log) : log[x].ev = "ok"}}
MsgOf(log, i) ==
    log[CHOOSE j \in 1..Len(log) : log[j].i = i /\ log[j].ev \in {"ok", "err"}].msg
FirstFailed(log) == CHOOSE k \in Failed(log) : \A i \in Failed(log) : k <= i

SuccessTexts(c) ==
    CASE c.op \in {"Open", "Close", "DownloadFile"} -> {"OK"}
      [] c.op = "Exec" -> {"exec output"}
      [] c.op = "UploadFile" -> {"file uploaded"}
      [] c.op = "Start" -> {"Start mock"}
      [] c.op = "Stop" -> {"Stop mock"}
      [] c.op = "AddTags" -> {"tags inserted. Current tags are: "}
      [] c.op = "DelTags" -> {"tags removed. Current tags are: "}

\* C1: when command k is the first of a batch of N to fail, exactly the
\* commands 1..k were executed, the outcome is an error, and its sequence
\* has length k: the success messages of 1..k-1 in order, then the failure
\* message of k.
C1_FailFast ==
    (BatchReply /\ Failed(reply.log) # {}) =>
        LET k == FirstFailed(reply.log)
        IN /\ ~reply.ok
           /\ Attempted(reply.log) = 1..k
           /\ Succeeded(reply.log) = 1..(k - 1)
           /\ Len(reply.vec) = k
           /\ k <= Len(reply.cmds)
           /\ \A i \in 1..k : reply.vec[i] = MsgOf(reply.log, i)
           /\ \A i \in 1..(k - 1) : reply.vec[i].text \in SuccessTexts(reply.cmds[i])

C1_Witness ==
    /\ BatchReply
    /\ Len(reply.cmds) = 2
    /\ Failed(reply.log) = {1}
    /\ Len(reply.vec) = 1

\* C2: when every command of a batch of N succeeds, the outcome is a
\* success whose sequence has length N, its i-th element being the success
\* message of the i-th command.
C2_AllSucceed ==
    (BatchReply /\ Succeeded(reply.log) = 1..Len(reply.cmds)) =>
        /\ reply.ok
        /\ Len(reply.vec) = Len(reply.cmds)
        /\ \A i \in 1..Len(reply.cmds) :
              /\ reply.vec[i] = MsgOf(reply.log, i)
              /\ reply.vec[i].text \in SuccessTexts(reply.cmds[i])

C2_Witness ==
    /\ BatchReply
    /\ reply.ok
    /\ Len(reply.cmds) = 2
    /\ reply.vec[1] # reply.vec[2]

\* C3: the commands of a batch start in list order, command i+1 only after
\* command i has completed successfully, so at most one is in flight.
InOrder(log) ==
    \A j \in 1..Len(log) :
        IF log[j].ev = "start"
        THEN IF j = 1 THEN log[j].i = 1
             ELSE log[j - 1].ev = "ok" /\ log[j].i = log[j - 1].i + 1
        ELSE j > 1 /\ log[j - 1].ev = "start" /\ log[j - 1].i = log[j].i

C3_Sequential ==
    /\ \A n \in 1..Len(tasks) : InOrder(tasks[n].log)
    /\ InOrder(reply.log)

C3_Witness ==
    \E n \in 1..Len(tasks) :
        /\ tasks[n].phase = "engine"
        /\ tasks[n].idx = 2
        /\ Len(tasks[n].log) = 3

\* C4: no batch begins its first command before the request accepted
\* before it has fully completed.
C4_Serialized ==
    \A n \in 2..Len(tasks) : tasks[n].kind = "update" => tasks[n].log = <<>>

\* C5: a destroy of session s is never carried out while a batch for s has
\* started and has not returned its outcome.
C5_NoDestroyDuringBatch ==
    (reply.kind = "destroy" /\ reply.ok) =>
        \A n \in 1..Len(tasks) :
            ~(tasks[n].kind = "update" /\ tasks[n].sid = reply.sid
                /\ tasks[n].log # <<>>)

\* C6: a SessionUpdate for an id that is not registered is answered at
\* once with a failure of exactly one element, the NoSuchSession message
\* of that id; no command is attempted and nothing changes.
C6_UnknownSession ==
    [][(reply'.kind = "update" /\ reply'.sid \notin DOMAIN deploys) =>
          /\ reply'.via = "handler"
          /\ ~reply'.ok
          /\ reply'.vec = <<NoSuchSessionMsg(reply'.sid)>>
          /\ reply'.log = <<>>
          /\ UNCHANGED <<deploys, tasks, created, actor, docker_api, envman>>]_vars

C6_Witness ==
    /\ reply.kind = "update"
    /\ reply.via = "handler"
    /\ reply.sid \notin DOMAIN deploys
    /\ tasks # <<>>

\* C7 as stated: the sequence returned for a session that does not exist
\* is empty.
C7_EmptySequence ==
    (reply.kind = "update" /\ reply.via = "handler") => reply.vec = <<>>

\* C7 as amended: the pipeline fails at once with NoSuchSession and the
\* sequence it returns holds exactly one element, the NoSuchSession message.
C7_OneElement ==
    (reply.kind = "update" /\ reply.sid \notin DOMAIN deploys) =>
        /\ ~reply.ok
        /\ Len(reply.vec) = 1
        /\ reply.vec[1].text = "no such session"
        /\ reply.vec[1].arg = {reply.sid}
        /\ Attempted(reply.log) = {}

C7_Witness ==
    /\ reply.kind = "update"
    /\ reply.sid \notin DOMAIN deploys
    /\ Len(reply.vec) = 1

\* C8: after DestroySession(id) has returned success, id is no longer in
\* the registry.
C8_DestroyedIsGone ==
    (reply.kind = "destroy" /\ reply.ok) => reply.sid \notin DOMAIN deploys

\* C9: DestroySession for an id that is not registered fails with
\* NoSuchSession.
C9_DestroyUnknown ==
    (reply.kind = "destroy" /\ reply.sid \notin DOMAIN deploys) =>
        (~reply.ok /\ reply.err = "NoSuchSession")

\* C10: a successful CreateSession has registered exactly one new session,
\* keyed by the container id the engine assigned, with status CREATED, and
\* returns that key.
C10_CreateRegisters ==
    [][(reply'.kind = "create" /\ reply'.ok) =>
          LET id == reply'.sid
          IN /\ id = created'
             /\ id \notin DOMAIN deploys
             /\ DOMAIN deploys' = DOMAIN deploys \cup {id}
             /\ deploys'[id].status = "CREATED"
             /\ deploys'[id].container = id
             /\ \A o \in DOMAIN deploys : deploys'[o] = deploys[o]]_vars

C10_Witness ==
    /\ reply.kind = "create"
    /\ reply.ok
    /\ reply.sid = 2
    /\ DOMAIN deploys = {1, 2}

\* The events of a CreateSession future: 1 is the image pull, 2 the
\* container create.
CreateLogs ==
    {tasks[n].log : n \in {x \in 1..Len(tasks) : tasks[x].kind = "create"}}
        \cup (IF reply.kind = "create" THEN {reply.log} ELSE {})

\* C11: in CreateSession the engine's create is attempted only after the
\* pull has finished, and it is not attempted at all when the pull fails.
C11_PullThenCreate ==
    \A log \in CreateLogs :
        /\ \A j \in 1..Len(log) :
              (log[j].ev = "start" /\ log[j].i = 2) =>
                  (j > 1 /\ log[j - 1].ev = "ok" /\ log[j - 1].i = 1)
        /\ 1 \in Failed(log) => 2 \notin Attempted(log)

C11_Witness ==
    /\ reply.kind = "create"
    /\ ~reply.ok
    /\ Failed(reply.log) = {1}
    /\ \E n \in 1..Len(tasks) : tasks[n].kind = "create" /\ tasks[n].phase = "create"

\* C12: when creating the workspace directories fails, CreateSession is
\* answered with the typed error IoError, no session is registered and
\* nothing is asked of the engine.
C12_DirsFailureIsIoError ==
    [][(docker_api /\ HandleCreateSession(FALSE, <<>>)) =>
          /\ reply'.kind = "create"
          /\ ~reply'.ok
          /\ reply'.err = "IoError"
          /\ actor' = "running"
          /\ UNCHANGED <<deploys, created, tasks>>]_vars

\* C13: while the engine handle is absent, CreateSession and
\* DestroySession each fail with UnknownEnv; no directory is created, the
\* engine is not contacted and the registry does not change.
C13_NoHandleUnknownEnv ==
    [][(~docker_api /\ reply'.kind \in {"create", "destroy"}) =>
          /\ ~reply'.ok
          /\ reply'.err = "UnknownEnv"
          /\ reply'.via # "future"
          /\ reply'.log = <<>>
          /\ UNCHANGED <<actor, docker_api, deploys, created, tasks>>]_vars

C13_Witness ==
    /\ actor = "stopped"
    /\ ~docker_api
    /\ reply.kind = "destroy"
    /\ reply.err = "UnknownEnv"

\* A CreateSession that has registered its session: the volumes it
\* declared, the bind strings given to the engine, the volumes recorded.
CreateReply == reply.kind = "create" /\ reply.ok
Recorded == deploys[reply.sid].workspace.volumes
Distinct(seq) == \A i, j \in 1..Len(seq) : seq[i] = seq[j] => i = j

\* C14 as stated: each declared volume gives one bind string "src:target"
\* in declaration order and is recorded in the workspace, and the number
\* of bind strings equals the number of volumes recorded.
C14_BindsCountRecorded ==
    CreateReply =>
        /\ Len(reply.binds) = Len(reply.volumes)
        /\ \A i \in 1..Len(reply.volumes) :
              /\ reply.binds[i] = <<reply.volumes[i].src, ":", reply.volumes[i].target>>
              /\ reply.volumes[i] \in Recorded
        /\ Len(reply.binds) = Cardinality(Recorded)

\* C14 as amended: one bind string "src:target" per declared volume, in
\* declaration order; the workspace records exactly the set of declared
\* volumes, so the two counts agree when no volume is declared twice.
C14_BindsAndVolumeSet ==
    CreateReply =>
        /\ Len(reply.binds) = Len(reply.volumes)
        /\ \A i \in 1..Len(reply.volumes) :
              reply.binds[i] = <<reply.volumes[i].src, ":", reply.volumes[i].target>>
        /\ Recorded = {reply.volumes[i] : i \in 1..Len(reply.volumes)}
        /\ Distinct(reply.volumes) => Len(reply.binds) = Cardinality(Recorded)

C14_Witness ==
    /\ CreateReply
    /\ Len(reply.binds) = 2
    /\ Cardinality(Recorded) = 2
    /\ reply.binds[1] = <<"/host/data", ":", "/workspace/data">>

\* C15: after an Open command has succeeded on a session its status, as
\* GetSessions reports it, is Running; after a Close has succeeded it is
\* Stopped.
C15_OpenRunsCloseStops ==
    (BatchReply /\ reply.ok /\ reply.cmds # <<>>) =>
        LET last == reply.cmds[Len(reply.cmds)]
            status == convert(deploys, reply.sid).status
        IN /\ last.op = "Open" => status = "RUNNING"
           /\ last.op = "Close" => status = "STOPPED"

\* The tag set that the first k commands of a batch leave, from tag set T.
RECURSIVE TagsAfter(_, _, _)
TagsAfter(cmds, k, T) ==
    IF k = 0 THEN T
    ELSE LET before == TagsAfter(cmds, k - 1, T)
         IN CASE cmds[k].op = "AddTags" -> before \cup cmds[k].tags
              [] cmds[k].op = "DelTags" -> before \ cmds[k].tags
              [] OTHER -> before

\* C16: a failing batch has no rollback and no look-ahead.  Run alone on
\* a session without tags, a batch whose command k is the first to fail
\* leaves the session with the tags that commands 1..k-1 produce, and
\* returns a failure sequence of length k.
C16_NoRollbackNoLookAhead ==
    (BatchReply /\ Failed(reply.log) # {}) =>
        LET k == FirstFailed(reply.log)
        IN /\ ~reply.ok
           /\ Len(reply.vec) = k
           /\ deploys[reply.sid].workspace.tags = TagsAfter(reply.cmds, k - 1, {})

\* Scenario D: [AddTags({gpu}), failing Exec, AddTags({extra})]
C16_Witness ==
    /\ BatchReply
    /\ reply.cmds = <<Cmd("AddTags", {"gpu"}), Cmd("Exec", {}), Cmd("AddTags", {"extra"})>>
    /\ Failed(reply.log) = {2}
    /\ Len(reply.vec) = 2
    /\ deploys[reply.sid].workspace.tags = {"gpu"}

\* The tags of session sid after run_command has run tag command c on d.
TagsOf(d, sid) == d[sid].workspace.tags
RanTag(d, sid, op, T) == run_command(d, TRUE, sid, Cmd(op, T)).d

\* C17: tag mutation is set union / difference and idempotent: in every
\* session state and for every tag set T, AddTags(T) twice leaves the tag
\* set that AddTags(T) once leaves, and DelTags(T) after AddTags(T) leaves
\* a tag set with no element of T.
C17_TagIdempotence ==
    \A sid \in DOMAIN deploys : \A T \in SUBSET {"gpu", "extra"} :
        LET once == RanTag(deploys, sid, "AddTags", T)
            twice == RanTag(once, sid, "AddTags", T)
            removed == RanTag(once, sid, "DelTags", T)
        IN /\ TagsOf(once, sid) = TagsOf(deploys, sid) \cup T
           /\ TagsOf(twice, sid) = TagsOf(once, sid)
           /\ TagsOf(removed, sid) = TagsOf(once, sid) \ T
           /\ TagsOf(removed, sid) \cap T = {}
           /\ \A other \in DOMAIN deploys \ {sid} : removed[other] = deploys[other]

\* a batch has run AddTags({gpu}) twice and then DelTags({gpu})
C17_Witness ==
    /\ BatchReply
    /\ reply.ok
    /\ reply.cmds = <<Cmd("AddTags", {"gpu"}), Cmd("AddTags", {"gpu"}), Cmd("DelTags", {"gpu"})>>
    /\ reply.vec[1].arg = reply.vec[2].arg
    /\ reply.vec[3].arg = {}
    /\ \E sid \in DOMAIN deploys : TagsOf(deploys, sid) = {}

\* The tag commands of a batch that succeeded, by position.
TagSteps(cmds, log) == {i \in Succeeded(log) : cmds[i].op \in TagOps}

\* C18: the success message of an AddTags or DelTags command enumerates
\* the session's tag set as it is after that command's mutation: for a
\* batch run alone on an untagged session, message i shows the tags that
\* commands 1..i produce.
C18_MessageShowsResult ==
    BatchReply =>
        \A i \in TagSteps(reply.cmds, reply.log) :
            /\ reply.vec[i].arg = TagsAfter(reply.cmds, i, {})
            /\ reply.vec[i].text = (IF reply.cmds[i].op = "AddTags"
                                    THEN "tags inserted. Current tags are: "
                                    ELSE "tags removed. Current tags are: ")

\* the message of DelTags({gpu}) after two AddTags shows {extra}: neither
\* the set before the command nor its argument
C18_Witness ==
    /\ BatchReply
    /\ reply.cmds = <<Cmd("AddTags", {"gpu"}), Cmd("AddTags", {"extra"}), Cmd("DelTags", {"gpu"})>>
    /\ reply.vec[3] = Msg("tags removed. Current tags are: ", {"extra"})
    /\ TagsOf(deploys, reply.sid) = {"extra"}

\* The containers that the engine operations of a batch were issued
\* against, read off its events.
Containers(cmds, log) ==
    UNION {log[j].msg.arg :
             j \in {x \in 1..Len(log) : log[x].ev = "start" /\ cmds[log[x].i].op \in EngineOps}}

\* The step is a poll of a batch for session t: the batch has resolved
\* and answered, or it is pending on the engine again.
BatchStepOf(t) ==
    \/ reply'.kind = "update" /\ reply'.via = "future" /\ reply'.sid = t
    \/ /\ Len(tasks') = Len(tasks)
       /\ \E n \in 1..Len(tasks) :
             tasks[n].kind = "update" /\ tasks[n].sid = t /\ tasks'[n] # tasks[n]

\* C19: a step of a batch for session s leaves every other session and
\* the membership of the registry as they were (a session changes only in
\* a step of a batch that names it, and then only in its tags), and every
\* engine operation of the batch is issued against the container of s.
C19_OnlyNamedSession ==
    [][/\ DOMAIN deploys \subseteq DOMAIN deploys'
       /\ \A t \in DOMAIN deploys :
             deploys'[t] # deploys[t] =>
                 /\ BatchStepOf(t)
                 /\ deploys'[t] = [deploys[t] EXCEPT !.workspace.tags = TagsOf(deploys', t)]
       /\ (reply'.kind = "update" /\ reply'.via = "future") =>
             /\ DOMAIN deploys' = DOMAIN deploys
             /\ Containers(reply'.cmds, reply'.log) \subseteq {deploys[reply'.sid].container}
       /\ \A n \in 1..Len(tasks') :
             (tasks'[n].kind = "update" /\ tasks'[n].phase = "engine") =>
                 tasks'[n].log[Len(tasks'[n].log)].msg.arg
                     = {deploys'[tasks'[n].sid].container}]_vars

\* a batch for session 2 has changed its tags and run an engine operation
\* on its container while session 1 is registered
C19_Witness ==
    /\ BatchReply
    /\ reply.sid = 2
    /\ DOMAIN deploys = {1, 2}
    /\ TagsOf(deploys, 2) = {"gpu"}
    /\ TagsOf(deploys, 1) = {}
    /\ Containers(reply.cmds, reply.log) = {2}

\* C20: GetSessions never fails; its answer holds exactly one info per
\* registered session, with the id, the workspace name, the status and
\* the tags the session has at that moment, and the registry and every
\* session stay as they were.
C20_GetSessionsSnapshot ==
    [][reply'.kind = "list" =>
          /\ reply'.ok
          /\ {info.id : info \in reply'.infos} = DOMAIN deploys
          /\ Cardinality(reply'.infos) = Cardinality(DOMAIN deploys)
          /\ \A info \in reply'.infos :
                /\ info.name = deploys[info.id].workspace.name
                /\ info.status = deploys[info.id].status
                /\ info.tags = deploys[info.id].workspace.tags
          /\ UNCHANGED <<actor, docker_api, envman, deploys, created, tasks>>]_vars

C20_Witness ==
    /\ reply.kind = "list"
    /\ Cardinality(reply.infos) = 2
    /\ \E info \in reply.infos : info.id = 2 /\ info.tags = {"gpu"} /\ info.status = "CREATED"
    /\ \E info \in reply.infos : info.id = 1 /\ info.tags = {}
    /\ tasks # <<>>

\* C21: a session id is unique in the registry: a CreateSession whose
\* engine-assigned id is already registered is rejected with
\* DuplicateSession, leaves the existing session in place and does not
\* report success.
C21_DuplicateRejected ==
    [][(reply'.kind = "create" /\ reply'.via = "future"
          /\ 2 \in Succeeded(reply'.log) /\ created' \in DOMAIN deploys) =>
          /\ ~reply'.ok
          /\ reply'.err = "DuplicateSession"
          /\ deploys' = deploys]_vars

\* C22: the backend registers itself with envman only after its engine
\* client was initialised; when the initialisation fails it halts without
\* registering, every later request for its name is answered UnknownEnv,
\* and the entries of the other backends stay as they were.
C22_RegisterAfterInit ==
    [][/\ "docker" \in envman' => (docker_api' /\ actor' # "stopped")
       /\ (actor = "new" /\ actor' = "stopped") =>
             (envman' = envman /\ ~resolve(envman', "docker"))
       /\ (actor = "new" /\ actor' = "running") =>
             (envman' \ {"docker"} = envman \ {"docker"} /\ resolve(envman', "docker"))
       /\ actor = "stopped" => (actor' = "stopped" /\ ~resolve(envman', "docker"))
       /\ (actor' = "stopped" /\ reply'.kind \in {"create", "destroy"}) =>
             (~reply'.ok /\ reply'.err = "UnknownEnv")]_vars

\* the docker backend has halted, backend hd is registered, and a request
\* for docker has been answered
C22_Witness ==
    /\ actor = "stopped"
    /\ envman = {"hd"}
    /\ reply.kind = "create"
    /\ reply.err = "UnknownEnv"

\* C23: a command failure does not tear the backend down: when a batch
\* returns a failure outcome the actor is still running with its engine
\* handle and its registration, the registered ids are the ones there
\* were, the other requests in flight are still in flight, and the
\* handlers go on taking requests.
C23_FailureKeepsBackend ==
    [][(reply'.kind = "update" /\ ~reply'.ok) =>
          /\ actor' = "running"
          /\ docker_api'
          /\ resolve(envman', "docker")
          /\ DOMAIN deploys' = DOMAIN deploys
          /\ \A sid \in DOMAIN deploys : convert(deploys', sid).status = convert(deploys, sid).status
          /\ \/ tasks' = tasks
             \/ \E n \in 1..Len(tasks) : tasks' = Without(tasks, n)]_vars

\* a batch has failed in the pipeline while another request is in flight
C23_Witness ==
    /\ BatchReply
    /\ ~reply.ok
    /\ Failed(reply.log) # {}
    /\ actor = "running"
    /\ DOMAIN deploys = {1}
    /\ \E n \in 1..Len(tasks) : tasks[n].kind = "create"

\* C24: the root directory of the workspace of every registered session
\* exists: it is created before the session is registered (already when
\* the pull is issued) and nothing removes it while the session is in the
\* registry, so it exists whenever a command of the session runs.
C24_DirsExist ==
    /\ \A sid \in DOMAIN deploys : deploys[sid].workspace.dirs
    /\ \A n \in 1..Len(tasks) : tasks[n].kind = "create" => tasks[n].workspace.dirs

\* a command of a registered session is running on the engine
C24_Witness ==
    \E n \in 1..Len(tasks) :
        /\ tasks[n].kind = "update"
        /\ tasks[n].phase = "engine"
        /\ tasks[n].sid \in DOMAIN deploys
        /\ deploys[tasks[n].sid].workspace.dirs

\* C25: a failure of the engine is reported with the kind EngineError: a
\* failed pull or create of a CreateSession and a failed delete of a
\* DestroySession reach the caller as EngineError.
C25_EngineErrorKind ==
    (reply.kind \in {"create", "destroy"} /\ reply.via = "future" /\ ~reply.ok) =>
        reply.err = "EngineError"

\* The events of kind ev in the log of a batch, by position in the log.
EventsOf(log, ev) == {j \in 1..Len(log) : log[j].ev = ev}

\* The logs of the batches in flight and of the batch just answered.
BatchLogs ==
    {[cmds |-> tasks[n].cmds, log |-> tasks[n].log] :
        n \in {x \in 1..Len(tasks) : tasks[x].kind = "update"}}
        \cup (IF BatchReply THEN {[cmds |-> reply.cmds, log |-> reply.log]} ELSE {})

\* C26: an UploadFile command fails with an explicit message whenever the
\* destination answers the PUT with a non-success status, succeeds only
\* when it answers with a success status, and fails as well when the
\* request cannot be built or sent.
C26_UploadStatus ==
    \A b \in BatchLogs : \A j \in EventsOf(b.log, "answer") :
        LET i == b.log[j].i
            answer == b.log[j].msg
            success == answer.text = "answered" /\ answer.arg \subseteq 200..299
        IN /\ b.cmds[i].op = "UploadFile"
           /\ success <=> i \in Succeeded(b.log)
           /\ ~success <=> i \in Failed(b.log)
           /\ (answer.text = "answered" /\ ~success) =>
                 MsgOf(b.log, i) = Msg("Unsuccessful file upload", answer.arg)
           /\ i \in Failed(b.log) => MsgOf(b.log, i).text # ""

\* an upload answered 302 has failed after an upload answered 204 succeeded
C26_Witness ==
    /\ BatchReply
    /\ ~reply.ok
    /\ Len(reply.vec) = 2
    /\ reply.vec[1].text = "file uploaded"
    /\ reply.vec[2] = Msg("Unsuccessful file upload", {302})
    /\ \E j \in EventsOf(reply.log, "answer") : reply.log[j].msg = Msg("answered", {204})

\* C27: there is no cancellation: a batch accepted for a registered
\* session stays in flight until it returns its one outcome, and no other
\* request that arrives at the backend aborts or drops it.
C27_NoBatchDropped ==
    [][\A n \in 1..Len(tasks) :
          tasks[n].kind = "update" =>
              \/ \E m \in 1..Len(tasks') :
                    /\ tasks'[m].kind = "update"
                    /\ tasks'[m].sid = tasks[n].sid
                    /\ tasks'[m].cmds = tasks[n].cmds
              \/ /\ reply'.kind = "update"
                 /\ reply'.via = "future"
                 /\ reply'.sid = tasks[n].sid
                 /\ reply'.cmds = tasks[n].cmds]_vars

\* The step has completed a command with an operation in ops for session
\* t: the log of a batch for t has gained its ok event.
Completed(t, ops) ==
    \E n \in 1..Len(tasks) :
        /\ tasks[n].kind = "update"
        /\ tasks[n].sid = t
        /\ \/ Len(tasks') = Len(tasks)
           \/ /\ reply'.kind = "update" /\ reply'.via = "future"
              /\ reply'.sid = t /\ reply'.cmds = tasks[n].cmds
              /\ tasks' = Without(tasks, n)
        /\ LET log == IF Len(tasks') = Len(tasks) THEN tasks'[n].log ELSE reply'.log
           IN \E j \in (Len(tasks[n].log) + 1)..Len(log) :
                 log[j].ev = "ok" /\ tasks[n].cmds[log[j].i].op \in ops

\* C28: the status of a session changes only through Open and Close; Exec,
\* Start, Stop, DownloadFile, UploadFile, AddTags, DelTags and GetSessions
\* leave it as it is; its tag set changes only through AddTags and
\* DelTags; no command changes its volume bindings.
C28_StatusAndTagsFrame ==
    [][\A t \in DOMAIN deploys :
          /\ t \in DOMAIN deploys'
          /\ deploys'[t].status # deploys[t].status => Completed(t, {"Open", "Close"})
          /\ TagsOf(deploys', t) # TagsOf(deploys, t) => Completed(t, TagOps)
          /\ deploys'[t].workspace.volumes = deploys[t].workspace.volumes]_vars

\* a batch has run Start and AddTags: the tags changed, the status did not
C28_Witness ==
    /\ BatchReply
    /\ reply.ok
    /\ Len(reply.cmds) = 2
    /\ reply.cmds[1].op = "Start"
    /\ reply.cmds[2].op = "AddTags"
    /\ TagsOf(deploys, reply.sid) = {"gpu"}
    /\ deploys[reply.sid].status = "CREATED"

\* The engine and HTTP calls a batch has made for its commands with
\* operation op: the command and the call, one record for each.
CallsOf(op) ==
    UNION {{[cmd |-> b.cmds[b.log[j].i], call |-> b.log[j].msg] :
               j \in {x \in EventsOf(b.log, "call") : b.cmds[b.log[x].i].op = op}} :
           b \in BatchLogs}

\* C29: DownloadFile treats the two formats differently: a Tar payload is
\* handed to the unit as an archive to extract at the target path
\* (archive_put_stream), and a Raw payload is placed as a single file, as
\* it is, and so never handed to the archive extraction.
C29_DownloadByFormat ==
    \A c \in CallsOf("DownloadFile") :
        /\ c.cmd.format = "Tar" =>
              c.call = Msg("archive_put_stream", TarStream)
        /\ c.cmd.format = "Raw" =>
              (c.call.arg = FileBytes /\ c.call.text # "archive_put_stream")

\* C30: UploadFile selects the body by format: with Raw the tar stream
\* fetched from the unit is un-tarred to a single file and the bytes of
\* that file are the body of the PUT; with Tar the tar stream fetched from
\* the unit is the body, unmodified.
C30_UploadBodyByFormat ==
    \A c \in CallsOf("UploadFile") :
        /\ c.call.text = "put"
        /\ c.cmd.format = "Raw" => c.call.arg = FileBytes
        /\ c.cmd.format = "Tar" => c.call.arg = TarStream

\* a batch has uploaded the same path once as Raw and once as Tar
C30_Witness ==
    /\ BatchReply
    /\ \E c \in CallsOf("UploadFile") :
          c.cmd.format = "Raw" /\ c.call = Msg("put", FileBytes)
    /\ \E c \in CallsOf("UploadFile") :
          c.cmd.format = "Tar" /\ c.call = Msg("put", TarStream)

\* The downloads in flight: the two halves of each.
Pipes == {tasks[n].pipe : n \in {x \in 1..Len(tasks) : tasks[x].kind = "update"}}

\* the chunks fetched from the source and not yet taken by the archive put
Outstanding(p) == p.fetched - p.consumed

\* C31 as stated: during DownloadFile the chunks fetched from the source
\* and not yet consumed by the engine's archive put are at most the
\* channel capacity of 16 plus the sender's slot.
C31_ChannelBound ==
    \A p \in Pipes : Outstanding(p) <= ChannelBuffer + 1

\* C31 amended: the chunks fetched and not yet consumed are the messages
\* in the channel, at most 16 plus the sender's slot, and the one chunk
\* send_all keeps while the sink refuses it, so at most 18; while that
\* chunk is kept the sender is parked and the source is not polled.
C31_PipeBound ==
    /\ \A p \in Pipes :
          /\ Outstanding(p) = p.queue + (IF p.held THEN 1 ELSE 0)
          /\ p.queue <= ChannelBuffer + 1
          /\ Outstanding(p) <= ChannelBuffer + 2
          /\ p.held => (p.parked /\ p.queue = ChannelBuffer + 1)
    /\ \A n \in 1..Len(tasks) : tasks[n].pipe.held => ~ENABLED FetchChunk(n)

\* the engine has taken two chunks while the source has yielded twenty:
\* seventeen are in the channel and send_all keeps one
C31_Witness ==
    \E p \in Pipes :
        /\ p.consumed = 2
        /\ p.held
        /\ p.queue = ChannelBuffer + 1
        /\ Outstanding(p) = ChannelBuffer + 2

\* C37: DownloadFile reports "OK" only when both halves have ended well:
\* the send half has pushed every chunk it fetched into the channel and
\* closed it, and the engine's archive put has finished; the command
\* fails, and does not report "OK", when the source or the put fails;
\* and no download stays pending once both halves have ended.
C37_JoinBothHalves ==
    /\ \A b \in BatchLogs : \A j \in EventsOf(b.log, "join") :
          LET i == b.log[j].i
              send == b.log[j].msg.arg[1]
              put == b.log[j].msg.arg[2]
              held == b.log[j].msg.arg[3]
          IN /\ i \in Succeeded(b.log) <=> (send = "done" /\ put = "done")
             /\ i \in Failed(b.log) <=> (send = "failed" \/ put = "failed")
             /\ i \in Succeeded(b.log) => (MsgOf(b.log, i) = Msg("OK", {}) /\ ~held)
             /\ i \in Failed(b.log) => MsgOf(b.log, i).text # "OK"
    /\ \A b \in BatchLogs : \A i \in Succeeded(b.log) \cup Failed(b.log) :
          b.cmds[i].op = "DownloadFile" =>
              \E j \in EventsOf(b.log, "join") : b.log[j].i = i
    /\ \A n \in 1..Len(tasks) :
          (tasks[n].kind = "update" /\ tasks[n].phase = "engine") =>
              /\ tasks[n].pipe.send # "failed" /\ tasks[n].pipe.put # "failed"
              /\ tasks[n].pipe.send = "running" \/ tasks[n].pipe.put = "running"

\* a download has answered "OK" after both of its halves were done
C37_Witness ==
    /\ BatchReply
    /\ reply.ok
    /\ reply.vec = <<Msg("OK", {})>>
    /\ \E j \in EventsOf(reply.log, "join") :
          reply.log[j].msg.arg = <<"done", "done", FALSE>>

\* the chunks of seq that are whole UTF-8 texts, one after the other
RECURSIVE Decoded(_)
Decoded(seq) ==
    IF seq = <<>> THEN <<>>
    ELSE (IF Head(seq) \in {<<104>>, <<195, 169>>} THEN Head(seq) ELSE <<>>)
             \o Decoded(Tail(seq))

\* C32: Exec runs the argument vector with the executable in front, and
\* its success payload is the concatenation, in arrival order, of the
\* output chunks that decode as UTF-8; a chunk that does not decode is
\* skipped and the command still succeeds; an error of the exec stream
\* fails the command with the message of that error.
C32_ExecOutput ==
    \A b \in BatchLogs : \A j \in EventsOf(b.log, "stream") :
        LET i == b.log[j].i
            chunks == b.log[j].msg.arg[1]
            stream_ok == b.log[j].msg.arg[2]
        IN /\ \E c \in CallsOf("Exec") :
                 /\ c.cmd = b.cmds[i]
                 /\ c.call = Msg("exec", <<b.cmds[i].executable>> \o b.cmds[i].args)
           /\ stream_ok =>
                 (i \in Succeeded(b.log) /\ MsgOf(b.log, i) = Msg("output", Decoded(chunks)))
           /\ ~stream_ok =>
                 (i \in Failed(b.log) /\ MsgOf(b.log, i) = Msg("exec stream error", {}))

\* "sh -c ls" has put out "h", a lone continuation byte and "h" again,
\* and the caller has got "hh"
C32_Witness ==
    /\ BatchReply
    /\ reply.ok
    /\ reply.cmds = <<ExecCmd("sh", <<"-c", "ls">>)>>
    /\ reply.vec = <<Msg("output", <<104, 104>>)>>
    /\ \E j \in EventsOf(reply.log, "stream") :
          reply.log[j].msg.arg = <<(<<(<<104>>), (<<169>>), (<<104>>)>>), TRUE>>

\* C33: the engine handle, once set at the start of the actor, is never
\* cleared, and sessions are registered only while it is set: a running
\* actor and a non-empty registry both imply the handle, no command ever
\* answers "Docker API not initialized properly", and no CreateSession
\* future answers UnknownEnv.
C33_HandleStays ==
    [][/\ docker_api => docker_api'
       /\ (actor' = "running" \/ DOMAIN deploys' # {}) => docker_api'
       /\ ~(reply'.kind = "create" /\ reply'.via = "future" /\ reply'.err = "UnknownEnv")
       /\ \A n \in 1..Len(reply'.vec) :
              reply'.vec[n].text # "Docker API not initialized properly"
       /\ \A n \in 1..Len(tasks') : \A j \in 1..Len(tasks'[n].log) :
              tasks'[n].log[j].msg.text # "Docker API not initialized properly"]_vars

\* with a session registered, a CreateSession waits for its container
\* and a batch of one command has been answered
C33_Witness ==
    /\ docker_api
    /\ Cardinality(DOMAIN deploys) = 1
    /\ \E n \in 1..Len(tasks) : tasks[n].kind = "create" /\ tasks[n].phase = "create"
    /\ BatchReply
    /\ Len(reply.vec) = 1

\* The step appends a CreateSession future or polls one that stays in flight.
CreateInFlightStep ==
    \/ Len(tasks') = Len(tasks) + 1 /\ tasks'[Len(tasks')].kind = "create"
    \/ /\ Len(tasks') = Len(tasks)
       /\ \E n \in 1..Len(tasks) : tasks[n].kind = "create" /\ tasks'[n] # tasks[n]

\* C34: a session enters the registry only in the step in which the
\* engine's container create succeeds after a completed pull; a
\* CreateSession in flight registers nothing and GetSessions lists only
\* registered sessions; when the pull or the create fails the step leaves
\* the registry as it was and the caller gets an error.
C34_RegisteredAtCreate ==
    [][/\ DOMAIN deploys' \ DOMAIN deploys # {} =>
             /\ reply'.kind = "create" /\ reply'.via = "future" /\ reply'.ok
             /\ Succeeded(reply'.log) = {1, 2}
             /\ DOMAIN deploys' \ DOMAIN deploys = {reply'.sid}
       /\ CreateInFlightStep => (deploys' = deploys /\ reply' = NoReply)
       /\ (reply'.kind = "list" /\ CreatesInFlight > 0) =>
             /\ \A info \in reply'.infos : info.id \in DOMAIN deploys
             /\ Cardinality(reply'.infos) = Cardinality(DOMAIN deploys)
       /\ (reply'.kind = "create" /\ reply'.via = "future"
             /\ Failed(reply'.log) # {}) =>
             /\ ~reply'.ok
             /\ reply'.err # ""
             /\ deploys' = deploys]_vars

\* the container create has failed after its pull, and the registry
\* holds the one tagged session it held before
C34_Witness ==
    /\ reply.kind = "create"
    /\ ~reply.ok
    /\ Succeeded(reply.log) = {1}
    /\ Failed(reply.log) = {2}
    /\ DOMAIN deploys = {1}
    /\ TagsOf(deploys, 1) = {"gpu"}

\* C35: a SessionUpdate with no command against a registered session is
\* answered with success and an empty sequence; it issues no engine
\* operation and changes no state of the backend.
C35_EmptyBatch ==
    [][/\ (reply'.kind = "update" /\ reply'.via = "future" /\ reply'.cmds = <<>>) =>
             /\ reply'.ok
             /\ reply'.vec = <<>>
             /\ reply'.log = <<>>
             /\ \E n \in 1..Len(tasks) :
                    /\ tasks[n].kind = "update" /\ tasks[n].cmds = <<>>
                    /\ tasks[n].sid = reply'.sid
                    /\ tasks' = Without(tasks, n)
             /\ UNCHANGED <<actor, docker_api, envman, deploys, created>>
       /\ (Len(tasks') = Len(tasks) + 1 /\ tasks'[Len(tasks')].kind = "update"
             /\ tasks'[Len(tasks')].cmds = <<>>) =>
             /\ tasks'[Len(tasks')].sid \in DOMAIN deploys
             /\ UNCHANGED <<actor, docker_api, envman, deploys, created>>
       /\ \A n \in 1..Len(tasks) :
             (tasks[n].kind = "update" /\ tasks[n].cmds = <<>>) => tasks[n].phase = "spawned"]_vars

\* an empty batch has been answered while a batch with a command is
\* still waiting for the engine
C35_Witness ==
    /\ BatchReply
    /\ reply.cmds = <<>>
    /\ reply.ok
    /\ reply.vec = <<>>
    /\ \E n \in 1..Len(tasks) : tasks[n].kind = "update" /\ tasks[n].phase = "engine"

\* The messages command c can answer with.
TextsOf(c) == SuccessTexts(c) \cup {EngineErrMsg(c.op).text}

\* The batches in flight and the batch just answered: the commands, the
\* messages pushed so far and the events.
Accumulators ==
    {[cmds |-> tasks[n].cmds, vec |-> tasks[n].vec, log |-> tasks[n].log] :
        n \in {x \in 1..Len(tasks) : tasks[x].kind = "update"}}
        \cup (IF BatchReply
               THEN {[cmds |-> reply.cmds, vec |-> reply.vec, log |-> reply.log]}
               ELSE {})

\* C36: result accumulation is private to a batch: with several batches
\* outstanding at the backend, the sequence of each holds one message for
\* each of its own commands that has ended, in the order of its commands,
\* each a message of that command and none of a command of another batch.
C36_PrivateAccumulation ==
    \A b \in Accumulators :
        /\ Len(b.vec) = Cardinality(Succeeded(b.log) \cup Failed(b.log))
        /\ Len(b.vec) <= Len(b.cmds)
        /\ \A k \in 1..Len(b.vec) :
              /\ b.vec[k].text \in TextsOf(b.cmds[k])
              /\ b.vec[k] = MsgOf(b.log, k)

\* a batch Start, Exec has been answered in full while a batch Exec,
\* Start, accepted before it, still waits for the engine with nothing
\* pushed
C36_Witness ==
    /\ BatchReply
    /\ reply.cmds = <<Cmd("Start", {}), Cmd("Exec", {})>>
    /\ [k \in 1..Len(reply.vec) |-> reply.vec[k].text] = <<"Start mock", "exec output">>
    /\ Len(tasks) = 1
    /\ tasks[1].cmds = <<Cmd("Exec", {}), Cmd("Start", {})>>
    /\ tasks[1].phase = "engine"
    /\ tasks[1].vec = <<>>

\* The answer to a ConnectModeMessage: the message with what the other
\* actors answered, the result, and the hubs a Disconnect was sent to.
ConnectModeReply == reply.kind = "connect_mode"
Handled == reply.cmds[1]
Result == reply.vec[1].text
Disconnected == reply.log[3].msg.arg
Changed == (Handled.save /\ Handled.edit = "Some") \/ Handled.state = "Some"

\* C38 as stated: with mode Auto no Disconnect is sent and the result is
\* None; with mode Manual, when the save or the connection manager
\* reports a change, Disconnect is sent to exactly the connected hubs that
\* are not in the saved hub_addrs and the result is Some; when neither
\* reports a change nothing is disconnected and the result is None.
C38_ConnectMode ==
    ConnectModeReply =>
        /\ Handled.mode = "Auto" => (Disconnected = {} /\ Result = "None")
        /\ (Handled.mode = "Manual" /\ Changed) =>
              (Disconnected = Handled.connected \ Handled.hub_addrs /\ Result = "Some")
        /\ (Handled.mode = "Manual" /\ ~Changed) =>
              (Disconnected = {} /\ Result = "None")

\* a request of the handler has failed: the save (when asked for), the
\* AutoMdns, and after a change the ListSockets, and in Manual mode the
\* GetConfig or a Disconnect that was sent
Broken ==
    \/ Handled.save /\ Handled.edit = "Err"
    \/ Handled.state = "Err"
    \/ Changed /\ ~Handled.list_ok
    \/ Changed /\ Handled.mode = "Manual" /\ ~Handled.config_ok
    \/ Changed /\ Handled.mode = "Manual"
          /\ (Handled.connected \ Handled.hub_addrs) \cap Handled.failing # {}

\* C38 amended: the same, when no request of the handler fails; when one
\* fails the result is the error; a Disconnect is never sent in mode
\* Auto, never to a saved hub, and never before the save, the AutoMdns,
\* the ListSockets and the GetConfig have all succeeded.
C38_ConnectModeOrError ==
    ConnectModeReply =>
        /\ Broken <=> Result = "Err"
        /\ reply.ok <=> ~Broken
        /\ (~Broken /\ Handled.mode = "Auto") => (Disconnected = {} /\ Result = "None")
        /\ (~Broken /\ Handled.mode = "Manual" /\ Changed) =>
              (Disconnected = Handled.connected \ Handled.hub_addrs /\ Result = "Some")
        /\ (~Broken /\ Handled.mode = "Manual" /\ ~Changed) =>
              (Disconnected = {} /\ Result = "None")
        /\ Handled.mode = "Auto" => Disconnected = {}
        /\ Disconnected \cap Handled.hub_addrs = {}
        /\ Disconnected # {} =>
              /\ Changed /\ Handled.list_ok /\ Handled.config_ok
              /\ Handled.state # "Err" /\ ~(Handled.save /\ Handled.edit = "Err")
              /\ Disconnected = Handled.connected \ Handled.hub_addrs

\* Manual mode, the manager reports a change, hubs 1 and 2 are connected
\* and hub 1 is saved: hub 2 is disconnected and the result is Some
C38_Witness ==
    /\ ConnectModeReply
    /\ Handled.mode = "Manual"
    /\ ~Handled.save
    /\ Handled.state = "Some"
    /\ Handled.connected = {1, 2}
    /\ Handled.hub_addrs = {1}
    /\ Disconnected = {2}
    /\ Result = "Some"
====
